---- MODULE Spec2Model ----
(***************************************************************************)
(* Model of speech-recorder/app.py: the rate_limit decorator, the          *)
(* SpeakerRecognitionSystem (speaker registry and transcript log) and the  *)
(* process_audio request handler of the Flask application.                 *)
(*                                                                         *)
(* Two specifications share the module:                                    *)
(*   SpecRL  concurrent callers of a function wrapped by                   *)
(*           rate_limit(max_requests, time_window);                        *)
(*   Spec    the request server: worker threads running process_audio and  *)
(*           enroll_speaker on the process-wide speaker_system.            *)
(* app.py defines rate_limit but applies it to no route, so the two parts  *)
(* share only the clock.                                                   *)
(***************************************************************************)
EXTENDS Integers, Sequences, FiniteSets, TLC

VARIABLES
    clock,      \* time(): seconds, non-decreasing
    \* ---- rate_limit closure state (app.py 20-21) and its callers
    requests,   \* deque of admitted timestamps
    lock,       \* Lock(): NoHolder or the caller inside "with lock"
    rpc,        \* position of each caller inside wrapped()
    now,        \* local "now" of each caller
    rresp,      \* what wrapped() returned to each caller
    fcalls,     \* invocations of f made by the caller's current call
    admitted,   \* history: every timestamp ever appended to requests
    \* ---- speaker_system (app.py 62-63, 182) and the remote service
    speakers,   \* self.speakers: profile handle -> Speaker
    transcript, \* self.transcript: list of TranscriptEntry
    nextHandle, \* next profile handle the remote service issues
    \* ---- worker threads of the server
    wpc,        \* position of each worker
    op,         \* operation the worker runs
    req,        \* the upload of the current process_audio request
    text,       \* local "text" of process_audio (Optional[str])
    profile_ids,\* handles sent to the identification call
    speaker,    \* local "speaker" of process_audio (Optional[Speaker])
    name,       \* argument "name" of enroll_speaker
    profile_id, \* local "profile_id" of enroll_speaker (Optional)
    resp,       \* HTTP response of process_audio
    ret,        \* return value of enroll_speaker
    calls,      \* remote calls issued by the current operation, in order
    outs,       \* outcomes of those calls, in order
    appends,    \* transcript entries appended by the current request
    formatted_entries, \* local list of get_formatted_transcript
    reported    \* handle the identification call reported (Optional)

rlvars == <<requests, lock, rpc, now, rresp, fcalls, admitted>>
srvvars == <<speakers, transcript, nextHandle, wpc, op, req, text,
             profile_ids, speaker, name, profile_id, resp, ret, calls, outs,
             appends, formatted_entries, reported>>

\* ---- bounds -------------------------------------------------------------
max_requests == 2      \* decorator argument C
time_window == 2       \* decorator argument T (seconds)
MaxTime == 4           \* the clock runs 0..MaxTime
NCallers == 2          \* concurrent callers of the wrapped function

Callers == 1..NCallers
NoHolder == 0
FOutcomes == {"200", "400", "raised"}

\* ---- rate_limit.wrapped (app.py 25-37) -----------------------------------
\* app.py 28: requests[0] < now - time_window
ExpiredInclusive(ts, n) == ts <= n - time_window
Expired(ts, n) == ts < n - time_window

\* app.py 31: len(requests) >= max_requests
AtCeilingOffByOne(q) == Len(q) > max_requests
AtCeiling(q) == Len(q) >= max_requests

\* app.py 26: "with lock" can be entered only when nobody holds the lock
CanAcquireUnlocked == TRUE
CanAcquire == lock = NoHolder

\* app.py 31-34: the rejecting return leaves requests as the eviction left it
RejectedQueueRecorded(q, n) == Append(q, n)
RejectedQueue(q, n) == q

\* app.py 36-37: the with block ends before f is called
ReleasedAfterCall(t) == t
Released(t) == NoHolder

\* a caller invokes wrapped()
RLCall(t) ==
    /\ rpc[t] = "idle"
    /\ rpc' = [rpc EXCEPT ![t] = "lock"]
    /\ rresp' = [rresp EXCEPT ![t] = "none"]
    /\ fcalls' = [fcalls EXCEPT ![t] = 0]
    /\ UNCHANGED <<clock, requests, lock, now, admitted, srvvars>>

\* app.py 26: with lock (acquire)
RLAcquire(t) ==
    /\ rpc[t] = "lock"
    /\ CanAcquire
    /\ lock' = t
    /\ rpc' = [rpc EXCEPT ![t] = "now"]
    /\ UNCHANGED <<clock, requests, now, rresp, fcalls, admitted, srvvars>>

\* app.py 27: now = time()
RLReadClock(t) ==
    /\ rpc[t] = "now"
    /\ now' = [now EXCEPT ![t] = clock]
    /\ rpc' = [rpc EXCEPT ![t] = "evict"]
    /\ UNCHANGED <<clock, requests, lock, rresp, fcalls, admitted, srvvars>>

\* app.py 28-29: one iteration of the eviction loop, or its exit
RLEvict(t) ==
    /\ rpc[t] = "evict"
    /\ IF requests # <<>> /\ Expired(Head(requests), now[t])
          THEN /\ requests' = Tail(requests)
               /\ rpc' = rpc
          ELSE /\ requests' = requests
               /\ rpc' = [rpc EXCEPT ![t] = "check"]
    /\ UNCHANGED <<clock, lock, now, rresp, fcalls, admitted, srvvars>>

\* app.py 31-34: reject with 429; the return leaves the with block
RLReject(t) ==
    /\ rpc[t] = "check"
    /\ AtCeiling(requests)
    /\ rresp' = [rresp EXCEPT ![t] = "429"]
    /\ lock' = NoHolder
    /\ rpc' = [rpc EXCEPT ![t] = "idle"]
    /\ requests' = RejectedQueue(requests, now[t])
    /\ UNCHANGED <<clock, now, fcalls, admitted, srvvars>>

\* app.py 36: requests.append(now)
RLAppend(t) ==
    /\ rpc[t] = "check"
    /\ ~AtCeiling(requests)
    /\ requests' = Append(requests, now[t])
    /\ admitted' = Append(admitted, now[t])
    /\ rpc' = [rpc EXCEPT ![t] = "unlock"]
    /\ UNCHANGED <<clock, lock, now, rresp, fcalls, srvvars>>

\* end of the with block: release
RLRelease(t) ==
    /\ rpc[t] = "unlock"
    /\ lock' = Released(t)
    /\ rpc' = [rpc EXCEPT ![t] = "call"]
    /\ UNCHANGED <<clock, requests, now, rresp, fcalls, admitted, srvvars>>

\* app.py 37: return f(*args, **kwargs); f answers or raises
RLInvoke(t) ==
    /\ rpc[t] = "call"
    /\ \E out \in FOutcomes : rresp' = [rresp EXCEPT ![t] = out]
    /\ fcalls' = [fcalls EXCEPT ![t] = @ + 1]
    /\ rpc' = [rpc EXCEPT ![t] = "idle"]
    /\ UNCHANGED <<clock, requests, lock, now, admitted, srvvars>>

\* time passes
Tick(bound) ==
    /\ clock < bound
    /\ clock' = clock + 1
    /\ UNCHANGED <<rlvars, srvvars>>

\* ==== speaker_system and process_audio ====================================
\* ---- bounds
NWorkers == 2          \* worker threads of the server
Preloaded == 49        \* speakers enrolled before the explored calls
MaxCreates == 2        \* profile handles the service issues while explored
MaxEntries == 2        \* transcript entries appended while explored
MaxServerTime == 1     \* the clock runs 0..MaxServerTime while requests are served

\* app.py 87: free-tier cap
MaxSpeakers == 50

Workers == 1..NWorkers

\* Optional[T]: None or a value
None == <<>>
Some(x) == <<x>>
Val(o) == o[1]

\* Strings the code inspects are sequences of characters.
WavLower == <<"c", ".", "w", "a", "v">>          \* "c.wav"
WavUpper == <<"C", ".", "W", "A", "V">>          \* "C.WAV"
Mp3File == <<"c", ".", "m", "p", "3">>           \* "c.mp3"
NoDot == <<"w", "a", "v">>                       \* "wav"
Filenames == {WavLower, WavUpper, Mp3File, NoDot}
Payloads == {<<>>, <<82>>}
NameOne == <<"A", "B">>                          \* "AB"
NameThree == <<"A", " ", "B", " ", "C">>         \* "A B C"
Names == {NameOne, NameThree}
EmptyStr == <<>>                                 \* ""
Hello == <<"h", "i">>                            \* a recognized text
Texts == {Hello, EmptyStr}
Unknown == <<"U", "n", "k", "n", "o", "w", "n">>
NotRecognized == <<"N", "o", "t", " ", "r", "e", "c", "o", "g", "n", "i", "z", "e", "d">>

\* str.lower() on the characters that occur
LowerChar(c) ==
    CASE c = "C" -> "c"
      [] c = "W" -> "w"
      [] c = "A" -> "a"
      [] c = "V" -> "v"
      [] c = "B" -> "b"
      [] OTHER -> c
Lower(s) == [i \in DOMAIN s |-> LowerChar(s[i])]

\* str.endswith
EndsWith(s, suf) ==
    /\ Len(s) >= Len(suf)
    /\ SubSeq(s, Len(s) - Len(suf) + 1, Len(s)) = suf

\* app.py 226: audio_file.filename.lower().endswith('.wav')
IsWavCaseSensitive(filename) == EndsWith(filename, <<".", "w", "a", "v">>)
IsWav(filename) == EndsWith(Lower(filename), <<".", "w", "a", "v">>)

\* the upload: no 'audio' field, or a file with a name and a payload
NoFile == [has |-> FALSE, filename |-> <<>>, data |-> <<>>]
Uploads == {NoFile} \cup
           {[has |-> TRUE, filename |-> f, data |-> d] : f \in Filenames, d \in Payloads}

\* app.py 213-238: the validation of process_audio; "" when the upload passes
Validate(r) ==
    IF ~r.has THEN "No audio file found"
    ELSE IF ~IsWav(r.filename) THEN "Invalid file format. Only WAV files are accepted."
    ELSE IF r.data = <<>> THEN "No audio data received"
    ELSE ""

\* Python truthiness of an Optional[str] ("if not text")
TruthyNotNone(o) == o # None
Truthy(o) == o # None /\ Val(o) # EmptyStr

\* app.py 247: speaker.name if speaker else "Unknown"
SpeakerNameOrNone(sp) == IF sp # None THEN Some(Val(sp).name) ELSE None
SpeakerName(sp) == IF sp # None THEN Some(Val(sp).name) ELSE Some(Unknown)

\* app.py 153-159: add_transcript_entry
AppendEntryFront(log, e) == <<e>> \o log
AppendEntry(log, e) == Append(log, e)

\* strftime('%H:%M:%S') of a timestamp (local time taken as UTC)
Digit(d) == <<"0", "1", "2", "3", "4", "5", "6", "7", "8", "9">>[d + 1]
TwoDigits(n) == <<Digit(n \div 10), Digit(n % 10)>>
Strftime(ts) ==
    TwoDigits((ts \div 3600) % 24) \o <<":">> \o
    TwoDigits((ts \div 60) % 60) \o <<":">> \o TwoDigits(ts % 60)

\* app.py 164-168: one formatted entry
FormatEntryUnknownFallback(e) ==
    [timestamp |-> Strftime(e.timestamp),
     text |-> e.text,
     speaker |-> IF Truthy(e.speaker) /\ e.speaker # Some(Unknown)
                    THEN Val(e.speaker) ELSE NotRecognized]
FormatEntry(e) ==
    [timestamp |-> Strftime(e.timestamp),
     text |-> e.text,
     speaker |-> IF Truthy(e.speaker) THEN Val(e.speaker) ELSE NotRecognized]

\* app.py 161-170: get_formatted_transcript, the loop over self.transcript
RECURSIVE FormatLoop(_, _)
FormatLoop(log, acc) ==
    IF log = <<>> THEN acc
    ELSE FormatLoop(Tail(log), Append(acc, FormatEntry(Head(log))))
get_formatted_transcript(log) == FormatLoop(log, <<>>)

\* app.py 103: name.split(' ', 1)
RECURSIVE FirstSpace(_, _)
FirstSpace(s, i) ==
    IF i > Len(s) THEN 0
    ELSE IF s[i] = " " THEN i
    ELSE FirstSpace(s, i + 1)
SplitOncePadded(s) ==
    LET i == FirstSpace(s, 1) IN
    IF i = 0 THEN <<s, EmptyStr>>
    ELSE <<SubSeq(s, 1, i - 1), SubSeq(s, i + 1, Len(s))>>
SplitOnce(s) ==
    LET i == FirstSpace(s, 1) IN
    IF i = 0 THEN <<s>>
    ELSE <<SubSeq(s, 1, i - 1), SubSeq(s, i + 1, Len(s))>>

\* app.py 104-109: Speaker(...)
MkSpeaker(n, h) ==
    [name |-> n, voice_profile_id |-> h,
     first_name |-> SplitOnce(n)[1], last_name |-> SplitOnce(n)[2]]

\* app.py 87: len(self.speakers) >= 50
CapReachedOffByOne(reg) == Cardinality(DOMAIN reg) > MaxSpeakers
CapReached(reg) == Cardinality(DOMAIN reg) >= MaxSpeakers

\* app.py 102: enrollment_result.reason == EnrolledVoiceProfile
EnrolledUnlessRaised(out) == out # "raised"
Enrolled(out) == out = "EnrolledVoiceProfile"

\* app.py 113-115: except Exception in enroll_speaker: return False
EnrollExceptReraise == "raised"
EnrollExcept == "False"

\* handles the identification service may report for the profiles sent
SetMin(S) == CHOOSE x \in S : \A y \in S : x <= y
SetMax(S) == CHOOSE x \in S : \A y \in S : x >= y
ForeignHandle == 0
Candidates(ids) ==
    IF ids = {} THEN {ForeignHandle}
    ELSE {SetMin(ids), SetMax(ids), ForeignHandle}

\* app.py 130: result.reason == RecognizedSpeaker
Recognized(out) == out = "RecognizedSpeaker"

\* app.py 131: self.speakers.get(result.profile_id)
LookupOrFirst(reg, h) ==
    IF h \in DOMAIN reg THEN Some(reg[h])
    ELSE IF DOMAIN reg = {} THEN None
    ELSE Some(reg[SetMin(DOMAIN reg)])
Lookup(reg, h) == IF h \in DOMAIN reg THEN Some(reg[h]) ELSE None

\* app.py 253-256: the body of the 200 response
NewestOnly(entries) == IF entries = <<>> THEN <<>> ELSE <<entries[Len(entries)]>>
ResponseTranscript(entries) == entries

NoResp == [status |-> 0, error |-> "", transcript |-> <<>>]
ErrorResp(code, msg) == [status |-> code, error |-> msg, transcript |-> <<>>]
OkResp(tr) == [status |-> 200, error |-> "", transcript |-> tr]

InFlight == {w \in Workers : op[w] = "process_audio" /\
                             wpc[w] \in {"transcribing", "identifying", "append"}}

\* app.py 211-241: a request reaches process_audio; the upload is validated
\* and, when it passes, transcribe_audio issues the recognition call
Receive(w) ==
    /\ wpc[w] = "idle"
    /\ \E r \in Uploads :
        /\ req' = [req EXCEPT ![w] = r]
        /\ IF Validate(r) # ""
              THEN /\ resp' = [resp EXCEPT ![w] = ErrorResp(400, Validate(r))]
                   /\ wpc' = [wpc EXCEPT ![w] = "done"]
                   /\ calls' = [calls EXCEPT ![w] = <<>>]
              ELSE /\ Len(transcript) + Cardinality(InFlight) < MaxEntries
                   /\ resp' = [resp EXCEPT ![w] = NoResp]
                   /\ wpc' = [wpc EXCEPT ![w] = "transcribing"]
                   /\ calls' = [calls EXCEPT ![w] = <<"transcribe">>]
    /\ op' = [op EXCEPT ![w] = "process_audio"]
    /\ UNCHANGED <<clock, rlvars, formatted_entries, reported, speakers, transcript, nextHandle, text,
                   profile_ids, speaker, name, profile_id, ret, outs, appends>>

\* app.py 242-244: a failed transcription ends the request
TranscribeFailurePcRetry == "transcribing"
TranscribeFailurePc == "done"

\* app.py 137-151 and 241-246: the recognition call returns; on a usable
\* text identify_speaker collects the enrolled handles and issues its call
TranscribeReturn(w) ==
    /\ wpc[w] = "transcribing"
    /\ \E out \in {"RecognizedSpeech", "NoMatch", "raised"} :
       \E t \in Texts :
        /\ (out # "RecognizedSpeech") => t = EmptyStr
        /\ outs' = [outs EXCEPT ![w] = Append(@, out)]
        /\ LET result == IF out = "RecognizedSpeech" THEN Some(t) ELSE None IN
            /\ text' = [text EXCEPT ![w] = result]
            /\ IF ~Truthy(result)
                  THEN /\ resp' = [resp EXCEPT ![w] =
                                      ErrorResp(400, "Failed to transcribe audio")]
                       /\ wpc' = [wpc EXCEPT ![w] = TranscribeFailurePc]
                       /\ UNCHANGED <<calls, profile_ids>>
                  ELSE /\ profile_ids' = [profile_ids EXCEPT ![w] =
                              {speakers[h].voice_profile_id : h \in DOMAIN speakers}]
                       /\ calls' = [calls EXCEPT ![w] = Append(@, "identify")]
                       /\ wpc' = [wpc EXCEPT ![w] = "identifying"]
                       /\ UNCHANGED resp
    /\ UNCHANGED <<clock, rlvars, formatted_entries, reported, speakers, transcript, nextHandle, op, req,
                   speaker, name, profile_id, ret, appends>>

\* app.py 128-135: the identification call returns and the reported handle
\* is looked up in self.speakers
IdentifyReturn(w) ==
    /\ wpc[w] = "identifying"
    /\ \E out \in {"RecognizedSpeaker", "NoMatch", "raised"} :
       \E h \in Candidates(profile_ids[w]) :
        /\ (out # "RecognizedSpeaker") => h = ForeignHandle
        /\ outs' = [outs EXCEPT ![w] = Append(@, out)]
        /\ reported' = [reported EXCEPT ![w] =
              IF Recognized(out) THEN Some(h) ELSE None]
        /\ speaker' = [speaker EXCEPT ![w] =
              IF Recognized(out) THEN Lookup(speakers, h) ELSE None]
    /\ wpc' = [wpc EXCEPT ![w] = "append"]
    /\ UNCHANGED <<clock, rlvars, formatted_entries, speakers, transcript, nextHandle, op, req,
                   text, profile_ids, name, profile_id, resp, ret,
                   calls, appends>>

\* app.py 247-250: speaker_name and add_transcript_entry
AddEntry(w) ==
    /\ wpc[w] = "append"
    /\ transcript' = AppendEntry(transcript,
                        [timestamp |-> clock, text |-> Val(text[w]),
                         speaker |-> SpeakerName(speaker[w])])
    /\ appends' = [appends EXCEPT ![w] = @ + 1]
    /\ wpc' = [wpc EXCEPT ![w] = "format"]
    /\ UNCHANGED <<clock, rlvars, formatted_entries, reported, speakers, nextHandle, op, req, text,
                   profile_ids, speaker, name, profile_id, resp, ret, calls, outs>>

\* app.py 163-169: one iteration of the loop of get_formatted_transcript;
\* the list iterator reads self.transcript at each step
FormatStep(w) ==
    /\ wpc[w] = "format"
    /\ Len(formatted_entries[w]) < Len(transcript)
    /\ formatted_entries' = [formatted_entries EXCEPT ![w] =
            Append(@, FormatEntry(transcript[Len(@) + 1]))]
    /\ UNCHANGED <<clock, rlvars, reported, speakers, transcript, nextHandle,
                   wpc, op, req, text, profile_ids, speaker, name, profile_id,
                   resp, ret, calls, outs, appends>>

\* app.py 170 and 253-256: the loop ends and the 200 response is returned
Respond(w) ==
    /\ wpc[w] = "format"
    /\ Len(formatted_entries[w]) >= Len(transcript)
    /\ resp' = [resp EXCEPT ![w] = OkResp(ResponseTranscript(formatted_entries[w]))]
    /\ wpc' = [wpc EXCEPT ![w] = "done"]
    /\ UNCHANGED <<clock, rlvars, formatted_entries, reported, speakers,
                   transcript, nextHandle, op, req, text, profile_ids, speaker,
                   name, profile_id, ret, calls, outs, appends>>

\* app.py 85-91: enroll_speaker is called; cap check, then
\* create_speaker_profile issues the profile-creation call
EnrollCall(w) ==
    /\ wpc[w] = "idle"
    /\ \E n \in Names : name' = [name EXCEPT ![w] = n]
    /\ op' = [op EXCEPT ![w] = "enroll_speaker"]
    /\ IF CapReached(speakers)
          THEN /\ ret' = [ret EXCEPT ![w] = "False"]
               /\ wpc' = [wpc EXCEPT ![w] = "done"]
               /\ calls' = [calls EXCEPT ![w] = <<>>]
          ELSE /\ ret' = [ret EXCEPT ![w] = "none"]
               /\ wpc' = [wpc EXCEPT ![w] = "creating"]
               /\ calls' = [calls EXCEPT ![w] = <<"create_profile">>]
    /\ UNCHANGED <<clock, rlvars, formatted_entries, reported, speakers, transcript, nextHandle, req, text,
                   profile_ids, speaker, profile_id, resp, outs, appends>>

\* app.py 72-83 and 91-100: the profile-creation call returns; with a handle
\* enroll_speaker issues the enrollment call
CreateReturn(w) ==
    /\ wpc[w] = "creating"
    /\ \E out \in {"CreatedVoiceProfile", "Canceled", "raised"} :
        /\ outs' = [outs EXCEPT ![w] = Append(@, out)]
        /\ IF out = "CreatedVoiceProfile"
              THEN /\ nextHandle < Preloaded + MaxCreates
                   /\ nextHandle' = nextHandle + 1
                   /\ profile_id' = [profile_id EXCEPT ![w] = Some(nextHandle + 1)]
                   /\ calls' = [calls EXCEPT ![w] = Append(@, "enroll_profile")]
                   /\ wpc' = [wpc EXCEPT ![w] = "enrolling"]
                   /\ UNCHANGED ret
              ELSE /\ ret' = [ret EXCEPT ![w] =
                              IF out = "raised" THEN EnrollExcept ELSE "False"]
                   /\ wpc' = [wpc EXCEPT ![w] = "done"]
                   /\ UNCHANGED <<nextHandle, profile_id, calls>>
    /\ UNCHANGED <<clock, rlvars, formatted_entries, reported, speakers, transcript, op, req, text,
                   profile_ids, speaker, name, resp, appends>>

\* app.py 100-115: the enrollment call returns; on success the name is split
\* and the speaker stored; a failed unpacking raises into the except clause
EnrollReturn(w) ==
    /\ wpc[w] = "enrolling"
    /\ \E out \in {"EnrolledVoiceProfile", "Canceled", "raised"} :
        /\ outs' = [outs EXCEPT ![w] = Append(@, out)]
        /\ IF Enrolled(out) /\ Len(SplitOnce(name[w])) = 2
              THEN /\ speakers' = [h \in DOMAIN speakers \cup {Val(profile_id[w])} |->
                                     IF h = Val(profile_id[w])
                                        THEN MkSpeaker(name[w], Val(profile_id[w]))
                                        ELSE speakers[h]]
                   /\ ret' = [ret EXCEPT ![w] = "True"]
              ELSE /\ ret' = [ret EXCEPT ![w] =
                              IF out = "raised" \/ Enrolled(out)
                                 THEN EnrollExcept ELSE "False"]
                   /\ UNCHANGED speakers
    /\ wpc' = [wpc EXCEPT ![w] = "done"]
    /\ UNCHANGED <<clock, rlvars, formatted_entries, reported, transcript, nextHandle, op, req, text,
                   profile_ids, speaker, name, profile_id, resp, calls, appends>>

\* the worker delivers the result and takes the next request
Finish(w) ==
    /\ wpc[w] = "done"
    /\ wpc' = [wpc EXCEPT ![w] = "idle"]
    /\ op' = [op EXCEPT ![w] = "none"]
    /\ req' = [req EXCEPT ![w] = NoFile]
    /\ text' = [text EXCEPT ![w] = None]
    /\ profile_ids' = [profile_ids EXCEPT ![w] = {}]
    /\ speaker' = [speaker EXCEPT ![w] = None]
    /\ name' = [name EXCEPT ![w] = <<>>]
    /\ profile_id' = [profile_id EXCEPT ![w] = None]
    /\ resp' = [resp EXCEPT ![w] = NoResp]
    /\ ret' = [ret EXCEPT ![w] = "none"]
    /\ calls' = [calls EXCEPT ![w] = <<>>]
    /\ outs' = [outs EXCEPT ![w] = <<>>]
    /\ appends' = [appends EXCEPT ![w] = 0]
    /\ formatted_entries' = [formatted_entries EXCEPT ![w] = <<>>]
    /\ reported' = [reported EXCEPT ![w] = None]
    /\ UNCHANGED <<clock, rlvars, speakers, transcript, nextHandle>>

\* the registry after k successful enrollments of "A B C"
Registry(k) == [h \in 1..k |-> MkSpeaker(NameThree, h)]

InitServer ==
    /\ \E k \in {0, Preloaded} : speakers = Registry(k)
    /\ nextHandle = Preloaded
    /\ transcript = <<>>
    /\ wpc = [w \in Workers |-> "idle"]
    /\ op = [w \in Workers |-> "none"]
    /\ req = [w \in Workers |-> NoFile]
    /\ text = [w \in Workers |-> None]
    /\ profile_ids = [w \in Workers |-> {}]
    /\ speaker = [w \in Workers |-> None]
    /\ name = [w \in Workers |-> <<>>]
    /\ profile_id = [w \in Workers |-> None]
    /\ resp = [w \in Workers |-> NoResp]
    /\ ret = [w \in Workers |-> "none"]
    /\ calls = [w \in Workers |-> <<>>]
    /\ outs = [w \in Workers |-> <<>>]
    /\ appends = [w \in Workers |-> 0]
    /\ formatted_entries = [w \in Workers |-> <<>>]
    /\ reported = [w \in Workers |-> None]

InitRL ==
    /\ requests = <<>>
    /\ lock = NoHolder
    /\ rpc = [t \in Callers |-> "idle"]
    /\ now = [t \in Callers |-> 0]
    /\ rresp = [t \in Callers |-> "none"]
    /\ fcalls = [t \in Callers |-> 0]
    /\ admitted = <<>>

Init ==
    /\ clock = 0
    /\ InitRL
    /\ InitServer

vars == <<clock, rlvars, srvvars>>

NextRL ==
    \/ Tick(MaxTime)
    \/ \E t \in Callers : RLCall(t)
    \/ \E t \in Callers : RLAcquire(t)
    \/ \E t \in Callers : RLReadClock(t)
    \/ \E t \in Callers : RLEvict(t)
    \/ \E t \in Callers : RLReject(t)
    \/ \E t \in Callers : RLAppend(t)
    \/ \E t \in Callers : RLRelease(t)
    \/ \E t \in Callers : RLInvoke(t)

InitLimiter == Init /\ speakers = Registry(0)

SpecRL == InitLimiter /\ [][NextRL]_vars

Next ==
    \/ Tick(MaxServerTime)
    \/ \E w \in Workers : Receive(w)
    \/ \E w \in Workers : TranscribeReturn(w)
    \/ \E w \in Workers : IdentifyReturn(w)
    \/ \E w \in Workers : AddEntry(w)
    \/ \E w \in Workers : FormatStep(w)
    \/ \E w \in Workers : Respond(w)
    \/ \E w \in Workers : EnrollCall(w)
    \/ \E w \in Workers : CreateReturn(w)
    \/ \E w \in Workers : EnrollReturn(w)
    \/ \E w \in Workers : Finish(w)

Spec == Init /\ [][Next]_vars

\* every worker thread keeps running and every remote call returns
Fairness ==
    \A w \in Workers :
        /\ WF_vars(TranscribeReturn(w))
        /\ WF_vars(IdentifyReturn(w))
        /\ WF_vars(AddEntry(w))
        /\ WF_vars(FormatStep(w))
        /\ WF_vars(Respond(w))

\* the routes of the application: requests reach process_audio only
\* (app.py 194-260 registers no route that calls enroll_speaker)
NextRoutes ==
    \/ Tick(MaxServerTime)
    \/ \E w \in Workers : Receive(w)
    \/ \E w \in Workers : TranscribeReturn(w)
    \/ \E w \in Workers : IdentifyReturn(w)
    \/ \E w \in Workers : AddEntry(w)
    \/ \E w \in Workers : FormatStep(w)
    \/ \E w \in Workers : Respond(w)
    \/ \E w \in Workers : Finish(w)

FairSpec == Init /\ [][NextRoutes]_vars /\ Fairness

\* ---- helpers for the claims ----------------------------------------------
InCritical(t) == rpc[t] \in {"now", "evict", "check", "unlock"}
\* admitted timestamps lying in the closed interval [s, s + time_window]
InWindow(s) == {i \in DOMAIN admitted : s <= admitted[i] /\ admitted[i] <= s + time_window}

\* C1: the timestamp queue never holds more than max_requests entries and
\* no interval of duration time_window contains more than max_requests
\* admitted timestamps.
C1_WindowCeiling ==
    /\ Len(requests) <= max_requests
    /\ \A s \in 0..MaxTime : Cardinality(InWindow(s)) <= max_requests

C1_Witness ==
    /\ Len(admitted) > max_requests
    /\ Len(requests) = max_requests
    /\ \E t \in Callers : rresp[t] = "429"

\* C3: the read-clock / evict / check / append sequence is one critical
\* section: at most one caller is inside it, it is the lock holder, and the
\* ceiling is never exceeded.
C3_MutualExclusion ==
    /\ \A t, u \in Callers : (InCritical(t) /\ InCritical(u)) => t = u
    /\ \A t \in Callers : InCritical(t) => lock = t
    /\ Len(requests) <= max_requests

C3_Witness ==
    \E t, u \in Callers :
        /\ t # u
        /\ rpc[t] = "check"
        /\ rpc[u] = "lock"
        /\ Len(requests) = max_requests - 1

\* ---- process_audio --------------------------------------------------------
Serving(w) == op[w] = "process_audio" /\ wpc[w] # "idle"
Last(q) == q[Len(q)]
IsPrefix(p, q) == Len(p) <= Len(q) /\ SubSeq(q, 1, Len(p)) = p

\* C2: process_audio is guarded by the rate limiter: of two process-audio
\* calls made back-to-back (the clock spans fewer than 60 seconds here) one
\* is answered 429 without running the handler.
C2_SecondCallRejected ==
    \A w1, w2 \in Workers :
        (w1 # w2 /\ Serving(w1) /\ Serving(w2) /\ wpc[w1] = "done" /\ wpc[w2] = "done")
            => (resp[w1].status = 429 \/ resp[w2].status = 429)

\* the recognition call of w returned no recognized speech, or failed
TranscriptionFailed(w) ==
    /\ Serving(w)
    /\ Len(outs[w]) >= 1
    /\ (outs[w][1] \in {"NoMatch", "raised"} \/ text[w] = Some(EmptyStr))

\* C4: when the transcription call returns no recognized speech or fails,
\* process-audio responds 400 "Failed to transcribe audio", appends no
\* transcript entry and never calls speaker identification.
C4_TranscriptionFailure ==
    /\ [](\A w \in Workers : TranscriptionFailed(w) =>
            /\ wpc[w] = "done"
            /\ resp[w] = [status |-> 400, error |-> "Failed to transcribe audio",
                          transcript |-> <<>>]
            /\ appends[w] = 0
            /\ calls[w] = <<"transcribe">>)
    /\ [][\A w \in Workers :
            (wpc[w] = "transcribing" /\ wpc'[w] = "done") => transcript' = transcript]_vars

C4_Witness ==
    \E w \in Workers :
        /\ TranscriptionFailed(w)
        /\ outs[w] = <<"raised">>
        /\ resp[w].status = 400
        /\ Len(transcript) = 1

\* the recognition call of w returned a text
Transcribed(w) ==
    /\ Serving(w)
    /\ Len(outs[w]) >= 1
    /\ outs[w][1] = "RecognizedSpeech"
    /\ text[w] \notin {None, Some(EmptyStr)}

\* the speaker label process_audio is to store for w
ExpectedLabel(w) ==
    IF speaker[w] = None THEN Some(Unknown) ELSE Some(speaker[w][1].name)

\* C5: every submission whose transcription succeeds appends exactly one
\* entry and returns 200 whatever identification yields; the stored speaker
\* is "Unknown" when identification yields no speaker, else the matched
\* speaker's display name.
C5_IdentificationNeverBlocks ==
    /\ [](\A w \in Workers : Transcribed(w) =>
            /\ wpc[w] \in {"identifying", "append", "format", "done"}
            /\ (Len(outs[w]) = 2 /\ outs[w][2] \in {"NoMatch", "raised"}) => speaker[w] = None
            /\ wpc[w] \in {"identifying", "append"} => appends[w] = 0
            /\ wpc[w] \in {"format", "done"} => appends[w] = 1
            /\ wpc[w] = "done" =>
                /\ resp[w].status = 200
                /\ \E i \in DOMAIN resp[w].transcript :
                      /\ resp[w].transcript[i].text = text[w][1]
                      /\ resp[w].transcript[i].speaker = ExpectedLabel(w)[1])
    /\ [][\A w \in Workers :
            (wpc[w] = "append" /\ wpc'[w] # "append") =>
                /\ Len(transcript') = Len(transcript) + 1
                /\ Last(transcript').text = text[w][1]
                /\ Last(transcript').speaker = ExpectedLabel(w)]_vars

C5_Witness ==
    \E w \in Workers :
        /\ Transcribed(w)
        /\ wpc[w] = "done"
        /\ outs[w] = <<"RecognizedSpeech", "raised">>
        /\ profile_ids[w] = {}
        /\ resp[w].status = 200
        /\ Last(resp[w].transcript).speaker = Unknown

\* ---- enroll_speaker -------------------------------------------------------
Size == Cardinality(DOMAIN speakers)
HasSpace(n) == \E i \in DOMAIN n : n[i] = " "

\* C6: an enroll call made when the registry holds 50 speakers returns
\* failure without issuing the profile-creation or the enrollment call and
\* leaves the registry unchanged.
C6_CapRejectsWithoutRemote ==
    /\ [][\A w \in Workers :
            (wpc[w] = "idle" /\ op'[w] = "enroll_speaker" /\ Size >= MaxSpeakers) =>
                /\ wpc'[w] = "done"
                /\ ret'[w] = "False"
                /\ calls'[w] = <<>>
                /\ speakers' = speakers
                /\ nextHandle' = nextHandle]_vars
    /\ [](\A w \in Workers :
            (op[w] = "enroll_speaker" /\ calls[w] = <<>>) =>
                (wpc[w] = "done" /\ ret[w] = "False" /\ outs[w] = <<>>))

C6_Witness ==
    \E w \in Workers :
        /\ op[w] = "enroll_speaker"
        /\ wpc[w] = "done"
        /\ ret[w] = "False"
        /\ calls[w] = <<>>
        /\ Size = MaxSpeakers

\* C7: the registry never holds more than 50 speakers, also when enroll
\* calls of parallel workers interleave.
C7_RegistryCap == Size <= MaxSpeakers

\* C8: an enroll call that fails leaves the registry as it was; the registry
\* changes only by storing one speaker under the handle profile creation
\* returned, after both remote steps succeeded.
C8_EnrollAtomic ==
    [][/\ \A w \in Workers :
            (op'[w] = "enroll_speaker" /\ ret'[w] = "False" /\ ret[w] # "False")
                => speakers' = speakers
       /\ (speakers' # speakers) =>
            \E w \in Workers :
                /\ op[w] = "enroll_speaker"
                /\ wpc[w] = "enrolling" /\ wpc'[w] = "done"
                /\ ret'[w] = "True"
                /\ calls[w] = <<"create_profile", "enroll_profile">>
                /\ outs'[w] = <<"CreatedVoiceProfile", "EnrolledVoiceProfile">>
                /\ HasSpace(name[w])
                /\ profile_id[w] # None
                /\ DOMAIN speakers' = DOMAIN speakers \cup {profile_id[w][1]}
                /\ speakers'[profile_id[w][1]].name = name[w]
                /\ speakers'[profile_id[w][1]].voice_profile_id = profile_id[w][1]
                /\ \A h \in DOMAIN speakers \ {profile_id[w][1]} :
                      speakers'[h] = speakers[h]]_vars

C8_Witness ==
    \E w \in Workers :
        /\ op[w] = "enroll_speaker"
        /\ wpc[w] = "done"
        /\ ret[w] = "False"
        /\ outs[w] = <<"CreatedVoiceProfile", "EnrolledVoiceProfile">>
        /\ ~HasSpace(name[w])
        /\ profile_id[w][1] \notin DOMAIN speakers
        /\ \E h \in DOMAIN speakers : h > Preloaded

\* ---- transcript log -------------------------------------------------------
FormattedInOrder(log) ==
    LET f == get_formatted_transcript(log) IN
    /\ Len(f) = Len(log)
    /\ \A i \in DOMAIN log :
          /\ f[i].text = log[i].text
          /\ f[i].timestamp = Strftime(log[i].timestamp)
          /\ log[i].speaker \notin {None, Some(EmptyStr)} => f[i].speaker = log[i].speaker[1]

\* C9: the transcript log only grows at its end (every earlier log is a
\* prefix of the current one) and formatted() returns one projected entry
\* per stored entry, in the order of the appends.
C9_AppendOnly ==
    /\ [][IsPrefix(transcript, transcript')]_vars
    /\ []FormattedInOrder(transcript)
    /\ [](\A w \in Workers :
            (Serving(w) /\ resp[w].status = 200) =>
                /\ Len(resp[w].transcript) <= Len(transcript)
                /\ \A i \in DOMAIN resp[w].transcript :
                      /\ resp[w].transcript[i].text = transcript[i].text
                      /\ resp[w].transcript[i].speaker = transcript[i].speaker[1])

C9_Witness ==
    /\ Len(transcript) = 2
    /\ transcript[1] # transcript[2]
    /\ \E w \in Workers : Serving(w) /\ resp[w].status = 200 /\ Len(resp[w].transcript) = 2

\* ---- validation -----------------------------------------------------------
\* the first failing check of an upload, "" when none fails
FirstFailure(r) ==
    IF ~r.has THEN "No audio file found"
    ELSE IF r.filename \notin {WavLower, WavUpper}
         THEN "Invalid file format. Only WAV files are accepted."
    ELSE IF Len(r.data) = 0 THEN "No audio data received"
    ELSE ""

\* C10: process-audio reports the first failing check in the order field,
\* filename, payload, with status 400; a validation failure makes no remote
\* call and leaves the transcript log and the registry unchanged.
C10_ValidationOrder ==
    /\ [](\A w \in Workers : Serving(w) =>
            IF FirstFailure(req[w]) # ""
               THEN /\ wpc[w] = "done"
                    /\ resp[w] = [status |-> 400, error |-> FirstFailure(req[w]),
                                  transcript |-> <<>>]
                    /\ calls[w] = <<>>
                    /\ outs[w] = <<>>
                    /\ appends[w] = 0
               ELSE /\ calls[w] # <<>>
                    /\ resp[w].error \notin {"No audio file found",
                          "Invalid file format. Only WAV files are accepted.",
                          "No audio data received"})
    /\ [][\A w \in Workers :
            (wpc[w] = "idle" /\ op'[w] = "process_audio" /\ FirstFailure(req'[w]) # "")
                => (transcript' = transcript /\ speakers' = speakers)]_vars

C10_Witness ==
    \E w \in Workers :
        /\ Serving(w)
        /\ req[w] = [has |-> TRUE, filename |-> Mp3File, data |-> <<>>]
        /\ resp[w].status = 400
        /\ resp[w].error = "Invalid file format. Only WAV files are accepted."
        /\ Len(transcript) > 0

\* ---- response body --------------------------------------------------------
\* the projection of one stored entry, as the response is to carry it
Projected(e) ==
    [timestamp |-> Strftime(e.timestamp), text |-> e.text, speaker |-> e.speaker[1]]

\* entry e of the log is the one request w appended
OwnEntry(w, e) == e.text = text[w][1] /\ e.speaker = ExpectedLabel(w)

\* C11: the 200 response carries the whole transcript at the moment it is
\* returned, in order, and so includes the entry of the same request, also
\* when other requests append between its append and its formatting.
C11_FullTranscript ==
    /\ [][\A w \in Workers :
            (wpc[w] = "format" /\ wpc'[w] = "done") =>
                /\ resp'[w].status = 200
                /\ Len(resp'[w].transcript) = Len(transcript)
                /\ \A i \in DOMAIN transcript :
                      resp'[w].transcript[i] = Projected(transcript[i])
                /\ \E i \in DOMAIN resp'[w].transcript :
                      /\ OwnEntry(w, transcript[i])
                      /\ resp'[w].transcript[i].text = text[w][1]]_vars
    /\ [](\A w \in Workers :
            (Serving(w) /\ wpc[w] = "format") =>
                /\ Len(formatted_entries[w]) <= Len(transcript)
                /\ \A i \in DOMAIN formatted_entries[w] :
                      formatted_entries[w][i] = Projected(transcript[i]))

C11_Witness ==
    \E w \in Workers :
        /\ Serving(w)
        /\ wpc[w] = "done"
        /\ resp[w].status = 200
        /\ Len(resp[w].transcript) = 2
        /\ Len(transcript) = 2
        /\ OwnEntry(w, transcript[1])
        /\ ~OwnEntry(w, transcript[2])
        /\ resp[w].transcript[2] = Projected(transcript[2])

\* ---- return value of enroll_speaker ----------------------------------------
\* C12: enroll never raises to its caller: every failure (cap reached,
\* profile creation without handle or raising, enrollment failing or
\* raising) is the return value False, and success is True.
C12_EnrollNeverRaises ==
    \A w \in Workers : op[w] = "enroll_speaker" =>
        /\ ret[w] \in {"none", "True", "False"}
        /\ wpc[w] # "done" => ret[w] = "none"
        /\ wpc[w] = "done" =>
            /\ ret[w] \in {"True", "False"}
            /\ ret[w] = "True" <=>
                  (outs[w] = <<"CreatedVoiceProfile", "EnrolledVoiceProfile">>
                   /\ HasSpace(name[w]))

C12_Witness ==
    \E w, u \in Workers :
        /\ op[w] = "enroll_speaker" /\ wpc[w] = "done"
        /\ outs[w] = <<"raised">> /\ ret[w] = "False"
        /\ op[u] = "enroll_speaker" /\ wpc[u] = "done"
        /\ outs[u] = <<"CreatedVoiceProfile", "raised">> /\ ret[u] = "False"

\* ---- identify_speaker -------------------------------------------------------
\* C13: identify returns the stored Speaker whose key is the handle the
\* identification call reported, and None when the service reports no
\* match, when the call fails or raises, or when the handle is no key of the
\* registry; it never raises (the handler goes on) and leaves the registry
\* unchanged.
C13_IdentifyResult ==
    [][\A w \in Workers :
        (wpc[w] = "identifying" /\ wpc'[w] # "identifying") =>
            /\ wpc'[w] = "append"
            /\ resp'[w] = resp[w]
            /\ speakers' = speakers
            /\ Len(outs'[w]) = 2
            /\ IF /\ outs'[w][2] = "RecognizedSpeaker"
                  /\ reported'[w] # None
                  /\ reported'[w][1] \in DOMAIN speakers
                  THEN /\ speaker'[w] = <<speakers[reported'[w][1]]>>
                       /\ speaker'[w][1].voice_profile_id = reported'[w][1]
                  ELSE speaker'[w] = None]_vars

C13_Witness ==
    \E w \in Workers :
        /\ Serving(w)
        /\ wpc[w] = "append"
        /\ outs[w] = <<"RecognizedSpeech", "RecognizedSpeaker">>
        /\ reported[w] = <<ForeignHandle>>
        /\ speaker[w] = None
        /\ Size > Preloaded

\* ---- speaker labels ---------------------------------------------------------
Absent == {None, <<EmptyStr>>}

\* C14: an entry appended after a failed or absent identification stores
\* "Unknown" and is rendered "Unknown"; formatted() renders "Not recognized"
\* exactly for a stored speaker that is empty or absent, which no entry
\* created through process-audio has.
C14_SpeakerLabels ==
    /\ [](/\ \A sp \in Absent \cup {<<Unknown>>, <<NameThree>>} :
               (FormatEntry([timestamp |-> 0, text |-> Hello, speaker |-> sp]).speaker
                   = NotRecognized) <=> (sp \in Absent)
          /\ \A i \in DOMAIN transcript :
               /\ transcript[i].speaker \notin Absent
               /\ get_formatted_transcript(transcript)[i].speaker = transcript[i].speaker[1]
               /\ get_formatted_transcript(transcript)[i].speaker # NotRecognized
          /\ \A w \in Workers : \A i \in DOMAIN resp[w].transcript :
               resp[w].transcript[i].speaker \in {Unknown, NameThree})
    /\ [][\A w \in Workers :
            (wpc[w] = "append" /\ wpc'[w] # "append" /\ speaker[w] = None) =>
                /\ Last(transcript').speaker = <<Unknown>>
                /\ FormatEntry(Last(transcript')).speaker = Unknown]_vars

C14_Witness ==
    \E w \in Workers :
        /\ Serving(w)
        /\ wpc[w] = "done"
        /\ speaker[w] = None
        /\ resp[w].status = 200
        /\ Len(resp[w].transcript) = 2
        /\ resp[w].transcript[1].speaker = NameThree
        /\ resp[w].transcript[2].speaker = Unknown

\* ---- rate limiter: boundary, rejection, slot ---------------------------------
\* C15: the window is exclusive on the old edge: once the eviction loop of
\* an admission check has ended, no queued timestamp equals
\* now - time_window.
C15_BoundaryEvicted ==
    \A t \in Callers : rpc[t] = "check" =>
        \A i \in DOMAIN requests : requests[i] # now[t] - time_window

\* C15 as amended: eviction removes only timestamps strictly older than
\* now - time_window; a timestamp equal to now - time_window stays queued,
\* and a call that finds the queue full with such a timestamp is rejected.
C15_BoundaryKept ==
    /\ [][\A t \in Callers : rpc[t] = "evict" =>
            /\ (requests' # requests) =>
                  (requests' = Tail(requests) /\ Head(requests) < now[t] - time_window)
            /\ (rpc'[t] = "check") =>
                  (requests = <<>> \/ Head(requests) >= now[t] - time_window)]_vars
    /\ [][\A t \in Callers :
            (/\ rpc[t] = "check" /\ rpc'[t] # "check"
             /\ Len(requests) >= max_requests
             /\ Head(requests) = now[t] - time_window)
                => (rresp'[t] = "429" /\ requests' = requests)]_vars

C15_Witness ==
    \E t \in Callers :
        /\ rpc[t] = "idle"
        /\ rresp[t] = "429"
        /\ Len(requests) = max_requests
        /\ Head(requests) = now[t] - time_window

\* C16: a rejected call (queue length after eviction >= max_requests)
\* returns 429, leaves the queue as the eviction left it and does not invoke
\* the wrapped function; an admitted call appends exactly the timestamp now
\* and invokes the wrapped function exactly once.
C16_RejectNotRecorded ==
    /\ [][\A t \in Callers :
            (rpc[t] = "check" /\ rpc'[t] # "check") =>
                IF Len(requests) >= max_requests
                   THEN /\ rresp'[t] = "429"
                        /\ rpc'[t] = "idle"
                        /\ requests' = requests
                        /\ admitted' = admitted
                        /\ fcalls'[t] = 0
                   ELSE /\ requests' = requests \o <<now[t]>>
                        /\ admitted' = admitted \o <<now[t]>>
                        /\ rresp'[t] = "none"
                        /\ rpc'[t] \notin {"idle", "lock", "now", "evict"}]_vars
    /\ [](\A t \in Callers :
            /\ fcalls[t] <= 1
            /\ rresp[t] = "429" => fcalls[t] = 0
            /\ rresp[t] \in FOutcomes <=> fcalls[t] = 1
            /\ rpc[t] \in {"unlock", "call"} => fcalls[t] = 0)

C16_Witness ==
    \E t, u \in Callers :
        /\ rpc[t] = "idle" /\ rresp[t] = "429" /\ fcalls[t] = 0
        /\ rpc[u] = "idle" /\ rresp[u] = "200" /\ fcalls[u] = 1
        /\ Len(requests) = max_requests
        /\ Len(admitted) > max_requests

\* C19: the timestamp is appended and the lock released before the wrapped
\* function runs; running it (whatever it answers, or raising) leaves the
\* queue and the lock alone, timestamps leave the queue only by eviction of
\* expired ones, and the lock is held only inside the admission check.
C19_SlotConsumed ==
    /\ [](/\ lock # NoHolder => InCritical(lock)
          /\ \A t \in Callers : rpc[t] = "call" =>
                (lock # t /\ \E i \in DOMAIN admitted : admitted[i] = now[t]))
    /\ [][\A t \in Callers :
            (rpc[t] = "call" /\ rpc'[t] # "call") =>
                /\ requests' = requests
                /\ admitted' = admitted
                /\ lock' = lock
                /\ rresp'[t] \in FOutcomes]_vars
    /\ [][Len(requests') < Len(requests) =>
            \E t \in Callers :
                /\ rpc[t] = "evict"
                /\ requests' = Tail(requests)
                /\ Head(requests) < now[t] - time_window]_vars

C19_Witness ==
    \E t, u \in Callers :
        /\ rpc[t] = "idle" /\ rresp[t] = "raised"
        /\ \E i \in DOMAIN requests : requests[i] = now[t]
        /\ Len(requests) = max_requests
        /\ rpc[u] = "idle" /\ rresp[u] = "429"
        /\ now[u] >= now[t]

\* ---- one submission ---------------------------------------------------------
\* position of a request on its way to the response
Stage(pc) ==
    CASE pc = "transcribing" -> 1
      [] pc = "identifying" -> 2
      [] pc = "append" -> 3
      [] pc = "format" -> 4
      [] pc = "done" -> 5
      [] OTHER -> 0

\* C17: a submission issues at most one transcription call and at most one
\* identification call, the latter only after the former returned a text;
\* the entry is appended only after identification returned; no step goes
\* back to an earlier stage (no retry); and once the remote calls return the
\* submission reaches its response (400, 200 or 500).
C17_OneShot ==
    /\ [](\A w \in Workers : Serving(w) =>
            /\ calls[w] \in {<<>>, <<"transcribe">>, <<"transcribe", "identify">>}
            /\ Len(outs[w]) <= Len(calls[w])
            /\ Len(calls[w]) = 2 =>
                  (/\ Len(outs[w]) >= 1
                   /\ outs[w][1] = "RecognizedSpeech"
                   /\ text[w] \notin Absent)
            /\ appends[w] <= 1
            /\ appends[w] = 1 => Len(outs[w]) = 2
            /\ wpc[w] = "done" =>
                  (resp[w].status \in {200, 400, 500} /\ Len(outs[w]) = Len(calls[w]))
            /\ wpc[w] # "done" => resp[w].status = 0)
    /\ [][\A w \in Workers :
            (Serving(w) /\ op'[w] = "process_audio" /\ wpc'[w] # wpc[w])
                => Stage(wpc'[w]) > Stage(wpc[w])]_vars
    /\ \A w \in Workers :
            (Serving(w) /\ wpc[w] # "done") ~> (wpc[w] = "done")

C17_Witness ==
    \E w \in Workers :
        /\ Serving(w)
        /\ wpc[w] = "done"
        /\ resp[w].status = 200
        /\ calls[w] = <<"transcribe", "identify">>
        /\ outs[w] = <<"RecognizedSpeech", "NoMatch">>
        /\ appends[w] = 1

\* ---- names without a space ----------------------------------------------------
\* the call of w got through both remote steps with a name without a space
SplitFails(w) ==
    /\ op[w] = "enroll_speaker"
    /\ wpc[w] = "done"
    /\ outs[w] = <<"CreatedVoiceProfile", "EnrolledVoiceProfile">>
    /\ ~HasSpace(name[w])

\* C18: enrolling a name without a space raises a runtime error out of
\* enroll to its caller instead of producing a failure return value.
C18_NoSpaceRaises ==
    \A w \in Workers : SplitFails(w) => ret[w] = "raised"

\* C18 as amended: the error of the two-part unpacking is caught inside
\* enroll, which returns False and stores nothing, after both remote calls
\* were made; every stored speaker has a name with a space, split at the
\* first one.
C18_NoSpaceReturnsFalse ==
    /\ \A w \in Workers :
          (op[w] = "enroll_speaker" /\ wpc[w] = "done" /\ ~HasSpace(name[w])) =>
              /\ ret[w] = "False"
              /\ profile_id[w] # None => profile_id[w][1] \notin DOMAIN speakers
    /\ \A w \in Workers : SplitFails(w) =>
          calls[w] = <<"create_profile", "enroll_profile">>
    /\ \A h \in DOMAIN speakers :
          /\ HasSpace(speakers[h].name)
          /\ ~HasSpace(speakers[h].first_name)
          /\ speakers[h].name = speakers[h].first_name \o <<" ">> \o speakers[h].last_name

C18_Witness ==
    \E w \in Workers :
        /\ SplitFails(w)
        /\ ret[w] = "False"
        /\ speakers = <<>>
        /\ nextHandle > Preloaded
====
